---- MODULE Spec2Model ----
(***************************************************************************)
(* A model of source/calculator.cpp: Calculator::eval, which converts an   *)
(* infix expression to postfix with Calculator::rpn (shunting yard) and    *)
(* then folds the postfix sequence over a value stack.                     *)
(*                                                                         *)
(* Conventions.                                                            *)
(*  - The input string s is a sequence of one-character strings; like the  *)
(*    code, positions are 0-based (At(s, k) is s[k]).                      *)
(*  - A Part is [start, end, symbol]: start and end are the offsets of the *)
(*    two pointers into s (end is one past the last character).            *)
(*  - assert(...) is active (main() itself relies on it): a false assert   *)
(*    is a fatal stop, like abort().                                       *)
(*  - A double is modelled as an exact rational [n, d] (d > 0, lowest      *)
(*    terms) while |n| and d stay within Cap; any other value (too large,  *)
(*    irrational, infinite, NaN) is the single value NaR.  Rounding is not *)
(*    modelled.                                                            *)
(*  - Undefined behaviour is a choice between the outcomes a build can     *)
(*    produce: the access goes through on the raw storage, or a checked    *)
(*    build (checked iterators, sanitizer, hardened library) stops there.  *)
(***************************************************************************)
EXTENDS Integers, Sequences, FiniteSets

VARIABLES s, pc, i, expr, oprs, buf, it, last, evld, under, oob, result, fatal

vars == <<s, pc, i, expr, oprs, buf, it, last, evld, under, oob, result, fatal>>

(***************************************************************************)
(* Bounds of the model.                                                    *)
(***************************************************************************)
MaxLen == 5

NumLen == 1

Cap == 10000

(***************************************************************************)
(* Symbols and their classification.                                       *)
(***************************************************************************)
Digits == {"0", "1", "2", "3", "4", "5", "6", "7", "8", "9"}

Operators == {"+", "-", "*", "/", "^", "%"}

Blanks == {" ", "\n", "\t"}

At(str, k) == str[k + 1]

type(sym) ==
    IF sym \in Digits THEN "val"
    ELSE IF sym \in Operators THEN "opr"
    ELSE IF sym = "(" THEN "open"
    ELSE IF sym = ")" THEN "close"
    ELSE IF sym = "." THEN "period"
    ELSE IF sym \in Blanks THEN "blank"
    ELSE "abort"

prec(op) ==
    IF op = "^" THEN 1
    ELSE IF op \in {"*", "/", "%"} THEN 2
    ELSE 3

associa(op) == IF op = "^" THEN "right" ELSE "left"

(***************************************************************************)
(* Part: the two constructors.                                             *)
(***************************************************************************)
RECURSIVE ScanValueAnyPeriods(_, _, _)
ScanValueAnyPeriods(str, end, notFloatingPoint) ==
    IF end >= Len(str) THEN [end |-> end, abort |-> FALSE]
    ELSE LET t == type(At(str, end)) IN
         IF t \in {"val", "period"}
         THEN ScanValueAnyPeriods(str, end + 1, notFloatingPoint)
         ELSE [end |-> end, abort |-> t = "abort"]

RECURSIVE ScanValue(_, _, _)
\* The loop of the value constructor from position end: the position it
\* stops at, and whether it stopped in abort() (a second period, or a
\* character type() does not know).
ScanValue(str, end, notFloatingPoint) ==
    IF end >= Len(str) THEN [end |-> end, abort |-> FALSE]
    ELSE LET t == type(At(str, end)) IN
         IF t = "val" THEN ScanValue(str, end + 1, notFloatingPoint)
         ELSE IF t = "period"
              THEN IF notFloatingPoint
                   THEN ScanValue(str, end + 1, FALSE)
                   ELSE [end |-> end, abort |-> TRUE]
         ELSE IF t = "abort" THEN [end |-> end, abort |-> TRUE]
         ELSE [end |-> end, abort |-> FALSE]

PartValueOneChar(str, start) ==
    [abort |-> FALSE,
     end   |-> start + 1,
     part  |-> [start |-> start, end |-> start + 1, symbol |-> At(str, start)]]

\* Part(s, start, end) with end = start on entry, as rpn calls it.
PartValue(str, start) ==
    LET r == ScanValue(str, start, TRUE) IN
    [abort |-> r.abort,
     end   |-> r.end,
     part  |-> [start |-> start, end |-> r.end, symbol |-> At(str, start)]]

PartOperator(str, start) ==
    [start |-> start, end |-> start + 1, symbol |-> At(str, start)]

(***************************************************************************)
(* rpn: the operator case.                                                 *)
(***************************************************************************)
Back(q) == q[Len(q)]

PopBack(q) == SubSeq(q, 1, Len(q) - 1)

ShouldPopGE(top, sym) ==
    top # "(" /\ prec(top) <= prec(sym)

\* The condition of the while loop of the operator case, given a
\* non-empty stack whose top is `top`.
ShouldPop(top, sym) ==
    /\ top # "("
    /\ \/ prec(top) < prec(sym)
       \/ associa(sym) = "left" /\ prec(top) = prec(sym)

RECURSIVE PopOperators(_, _, _)
\* The while loop of the operator case: [expr, oprs] after it.
PopOperators(e, o, sym) ==
    IF o # <<>> /\ ShouldPop(Back(o).symbol, sym)
    THEN PopOperators(Append(e, Back(o)), PopBack(o), sym)
    ELSE [expr |-> e, oprs |-> o]

RECURSIVE PopToOpen(_, _)
\* The while loop of the close case: [expr, oprs] after it.
PopToOpen(e, o) ==
    IF o # <<>> /\ Back(o).symbol # "("
    THEN PopToOpen(Append(e, Back(o)), PopBack(o))
    ELSE [expr |-> e, oprs |-> o]

(***************************************************************************)
(* Values: doubles as exact rationals within Cap, NaR otherwise.           *)
(***************************************************************************)
NaR == [n |-> 0, d |-> 0]

Abs(x) == IF x < 0 THEN -x ELSE x

RECURSIVE Gcd(_, _)
Gcd(a, b) == IF b = 0 THEN a ELSE Gcd(b, a % b)

\* The rational n/d (d # 0) in lowest terms with a positive denominator.
Rat(n, d) ==
    LET g  == Gcd(Abs(n), Abs(d))
        sn == IF d < 0 THEN -n ELSE n
        r  == [n |-> sn \div g, d |-> Abs(d) \div g]
    IN  IF Abs(r.n) > Cap \/ r.d > Cap THEN NaR ELSE r

Int2Val(k) == Rat(k, 1)

DigitVal(c) ==
    CASE c = "0" -> 0 [] c = "1" -> 1 [] c = "2" -> 2 [] c = "3" -> 3
      [] c = "4" -> 4 [] c = "5" -> 5 [] c = "6" -> 6 [] c = "7" -> 7
      [] c = "8" -> 8 [] c = "9" -> 9

RECURSIVE Pow10(_)
Pow10(k) == IF k = 0 THEN 1 ELSE 10 * Pow10(k - 1)

RECURSIVE DigitsValue(_, _, _)
\* The decimal value of the digits of str in [from, to), the period skipped.
DigitsValue(str, from, to) ==
    IF to <= from THEN 0
    ELSE IF At(str, to - 1) = "." THEN DigitsValue(str, from, to - 1)
    ELSE 10 * DigitsValue(str, from, to - 1) + DigitVal(At(str, to - 1))

\* The number of digits after the period in [from, to) (0 without one).
FractionDigits(str, from, to) ==
    LET ps == {k \in from .. (to - 1) : At(str, k) = "."} IN
    IF ps = {} THEN 0 ELSE to - 1 - (CHOOSE k \in ps : TRUE)

\* std::from_chars over the span of a value Part.
computeVal(str, p) ==
    Rat(DigitsValue(str, p.start, p.end),
        Pow10(FractionDigits(str, p.start, p.end)))

Add(a, b) ==
    IF a = NaR \/ b = NaR THEN NaR ELSE Rat(a.n * b.d + b.n * a.d, a.d * b.d)

Sub(a, b) ==
    IF a = NaR \/ b = NaR THEN NaR ELSE Rat(a.n * b.d - b.n * a.d, a.d * b.d)

Mul(a, b) ==
    IF a = NaR \/ b = NaR THEN NaR ELSE Rat(a.n * b.n, a.d * b.d)

Div(a, b) ==
    IF a = NaR \/ b = NaR \/ b.n = 0 THEN NaR ELSE Rat(a.n * b.d, a.d * b.n)

\* fmod: the remainder of the truncated quotient; it has the sign of a.
Fmod(a, b) ==
    IF a = NaR \/ b = NaR \/ b.n = 0 THEN NaR
    ELSE LET x == a.n * b.d
             y == Abs(b.n * a.d)
             r == Abs(x) % y
         IN  Rat(IF x < 0 THEN -r ELSE r, a.d * b.d)

RECURSIVE PowNat(_, _)
PowNat(a, k) ==
    IF k = 0 THEN Int2Val(1)
    ELSE LET h == PowNat(a, k \div 2)
             q == Mul(h, h)
         IN  IF k % 2 = 0 THEN q ELSE Mul(q, a)

\* pow: exact for an integer exponent, NaR for any other.
Pow(a, b) ==
    IF a = NaR \/ b = NaR \/ b.d # 1 THEN NaR
    ELSE IF b.n >= 0 THEN PowNat(a, b.n)
    ELSE Div(Int2Val(1), PowNat(a, -b.n))

applyOperatorSwapped(a, b, opr) ==
    CASE opr = "+" -> Add(b, a)
      [] opr = "-" -> Sub(b, a)
      [] opr = "*" -> Mul(b, a)
      [] opr = "/" -> Div(b, a)
      [] opr = "%" -> Fmod(b, a)
      [] opr = "^" -> Pow(b, a)

\* The value applyOperator leaves in a.
applyOperator(a, b, opr) ==
    CASE opr = "+" -> Add(a, b)
      [] opr = "-" -> Sub(a, b)
      [] opr = "*" -> Mul(a, b)
      [] opr = "/" -> Div(a, b)
      [] opr = "%" -> Fmod(a, b)
      [] opr = "^" -> Pow(a, b)

(***************************************************************************)
(* The inputs of eval that the model explores.                             *)
(***************************************************************************)
Alphabet == {"1", "2", "-", "^", "(", ")", ".", " "}

NumeralDigits == {"2", "3"}

\* Every string over Alphabet of at most MaxLen characters.
ShortInputs == UNION {[1 .. k -> Alphabet] : k \in 0 .. MaxLen}

\* Literals of at most NumLen characters: a digit first, at most one period.
Numerals ==
    {q \in UNION {[1 .. k -> NumeralDigits \cup {"."}] : k \in 1 .. NumLen} :
        /\ q[1] # "."
        /\ Cardinality({k \in DOMAIN q : q[k] = "."}) <= 1}

\* a op1 b op2 c, for all literals and all operators.
PrecInputs ==
    {a \o <<op1>> \o b \o <<op2>> \o c :
        a \in Numerals, b \in Numerals, c \in Numerals,
        op1 \in Operators, op2 \in Operators}

\* The expressions the specification and main() single out.
Examples ==
    { <<"8", "-", "3">>, <<"7", "%", "4">>, <<"2", "^", "3">>,
      <<"8", "/", "4", "/", "2">>, <<"2", "^", "3", "^", "2">>,
      <<"(", "1", "+", "2", ")", "*", "3">>,
      <<"(", "1", "+", ")", "2">>, <<"1", " ", "2", " ", "+">>,
      <<"3", ".", "5">>, <<"1", "+", ".", "5">>,
      <<"1", ".", "2", ".", "3">>,
      <<"(", "1", "+", "2">>, <<"1", "+", "2", ")">>,
      <<" ", "1", "\t", "+", "\n", "2", " ">>,
      <<"1", "+", "2", "*", "(", "3", "-", "4", ")">> }

Inputs == ShortInputs \cup PrecInputs \cup Examples

(***************************************************************************)
(* State.                                                                  *)
(*   s            the argument of eval                                     *)
(*   pc           "rpn" (in rpn), "eval" (in eval's loop), "done"          *)
(*                (returned), "fatal" (the process was stopped)            *)
(*   i            rpn's scan position                                      *)
(*   expr, oprs   the output vector and the operator stack                 *)
(*   buf          the storage of expr as rpn left it: pop_back shortens    *)
(*                expr and leaves the storage as it is                     *)
(*   it, last     the range-for's position and its end, taken once         *)
(*   evld, under  the value stack; under > 0 when pop_back has moved its   *)
(*                end `under` slots below its first slot                   *)
(*   oob          a slot outside the value stack has been read or written  *)
(*   result       <<v>> once eval has returned v                           *)
(*   fatal        why the process was stopped ("" while it runs)           *)
(***************************************************************************)
Init ==
    /\ s \in Inputs
    /\ pc = "rpn"
    /\ i = 0
    /\ expr = <<>>
    /\ oprs = <<>>
    /\ buf = <<>>
    /\ it = 0
    /\ last = 0
    /\ evld = <<>>
    /\ under = 0
    /\ oob = FALSE
    /\ result = <<>>
    /\ fatal = ""

Scanning == pc = "rpn" /\ i < Len(s)

EvalUnchanged == UNCHANGED <<buf, it, last, evld, under, oob, result>>

Stop(why) == pc' = "fatal" /\ fatal' = why

\* case SymbolType::val
RpnVal ==
    /\ Scanning
    /\ type(At(s, i)) = "val"
    /\ LET r == PartValue(s, i) IN
       IF r.abort
       THEN /\ Stop(IF At(s, r.end) = "." THEN "second period"
                                         ELSE "unknown symbol")
            /\ i' = r.end
            /\ UNCHANGED expr
       ELSE /\ expr' = Append(expr, r.part)
            /\ i' = r.end
            /\ UNCHANGED <<pc, fatal>>
    /\ UNCHANGED <<s, oprs>>
    /\ EvalUnchanged

\* case SymbolType::opr
RpnOpr ==
    /\ Scanning
    /\ type(At(s, i)) = "opr"
    /\ LET r == PopOperators(expr, oprs, At(s, i)) IN
       /\ expr' = r.expr
       /\ oprs' = Append(r.oprs, PartOperator(s, i))
    /\ i' = i + 1
    /\ UNCHANGED <<s, pc, fatal>>
    /\ EvalUnchanged

\* case SymbolType::open
RpnOpen ==
    /\ Scanning
    /\ type(At(s, i)) = "open"
    /\ oprs' = Append(oprs, PartOperator(s, i))
    /\ i' = i + 1
    /\ UNCHANGED <<s, pc, fatal, expr>>
    /\ EvalUnchanged

CloseKeepMarker(r) ==
    [expr |-> Append(r.expr, Back(r.oprs)), oprs |-> PopBack(r.oprs)]

\* The close case once the loop has stopped at an open marker.
CloseDiscard(r) == [expr |-> r.expr, oprs |-> PopBack(r.oprs)]

\* case SymbolType::close
RpnClose ==
    /\ Scanning
    /\ type(At(s, i)) = "close"
    /\ LET r == PopToOpen(expr, oprs) IN
       IF r.oprs = <<>>
       THEN /\ Stop("unbalanced close")
            /\ expr' = r.expr
            /\ oprs' = r.oprs
            /\ UNCHANGED i
       ELSE /\ expr' = CloseDiscard(r).expr
            /\ oprs' = CloseDiscard(r).oprs
            /\ i' = i + 1
            /\ UNCHANGED <<pc, fatal>>
    /\ UNCHANGED s
    /\ EvalUnchanged

\* case SymbolType::blank
RpnBlank ==
    /\ Scanning
    /\ type(At(s, i)) = "blank"
    /\ i' = i + 1
    /\ UNCHANGED <<s, pc, fatal, expr, oprs>>
    /\ EvalUnchanged

\* default: a period where a token starts (or type()'s own abort)
RpnAbort ==
    /\ Scanning
    /\ type(At(s, i)) \in {"period", "abort"}
    /\ Stop(IF type(At(s, i)) = "period" THEN "leading period"
                                         ELSE "unknown symbol")
    /\ UNCHANGED <<s, i, expr, oprs>>
    /\ EvalUnchanged

RECURSIVE DrainNoAssert(_, _)
DrainNoAssert(e, o) ==
    IF o = <<>> THEN [expr |-> e, oprs |-> o, abort |-> FALSE]
    ELSE DrainNoAssert(Append(e, Back(o)), PopBack(o))

RECURSIVE Drain(_, _)
\* The loop after the scan: [expr, oprs, abort] when it ends or asserts.
Drain(e, o) ==
    IF o = <<>> THEN [expr |-> e, oprs |-> o, abort |-> FALSE]
    ELSE IF Back(o).symbol = "(" THEN [expr |-> e, oprs |-> o, abort |-> TRUE]
    ELSE Drain(Append(e, Back(o)), PopBack(o))

\* End of input: rpn empties the stack and returns into eval, whose
\* range-for takes expr.begin() and expr.end().
RpnEnd ==
    /\ pc = "rpn"
    /\ i >= Len(s)
    /\ LET r == Drain(expr, oprs) IN
       /\ expr' = r.expr
       /\ oprs' = r.oprs
       /\ IF r.abort
          THEN /\ Stop("unbalanced open")
               /\ UNCHANGED <<buf, it, last>>
          ELSE /\ pc' = "eval"
               /\ buf' = r.expr
               /\ it' = 0
               /\ last' = Len(r.expr)
               /\ UNCHANGED fatal
    /\ UNCHANGED <<s, i, evld, under, oob, result>>

(***************************************************************************)
(* eval: the loop over expr.                                               *)
(***************************************************************************)
InLoop == pc = "eval" /\ it < last

\* The Part the loop's reference p names.  After a pop_back it may lie at
\* or past expr.end(); read from the raw storage it is still what rpn put
\* there.
Token == buf[it + 1]

RpnUnchanged == UNCHANGED <<s, i, oprs, buf, last>>

\* case SymbolType::val: evld.emplace_back(p.computeVal())
EvalVal ==
    /\ InLoop
    /\ type(Token.symbol) = "val"
    /\ IF under > 0
       THEN /\ under' = under - 1
            /\ oob' = TRUE
            /\ UNCHANGED evld
       ELSE /\ evld' = Append(evld, computeVal(s, Token))
            /\ UNCHANGED <<under, oob>>
    /\ it' = it + 1
    /\ UNCHANGED <<pc, fatal, expr, result>>
    /\ RpnUnchanged

\* applyOperator(evld[evld.size() - 2], evld.back(), opr); evld.pop_back()
\* on a stack of at least two values.
Fold(st, opr) ==
    Append(SubSeq(st, 1, Len(st) - 2),
           applyOperator(st[Len(st) - 1], st[Len(st)], opr))

\* case SymbolType::opr (and default: abort()).  With fewer than two values
\* evld[evld.size() - 2] is outside the stack; this is the outcome where
\* the access goes through.
EvalOpr ==
    /\ InLoop
    /\ type(Token.symbol) # "val"
    /\ IF type(Token.symbol) # "opr"
       THEN /\ Stop("unknown token")
            /\ UNCHANGED <<it, expr, evld, under, oob>>
       ELSE /\ IF Len(evld) >= 2
               THEN /\ evld' = Fold(evld, Token.symbol)
                    /\ UNCHANGED <<under, oob>>
               ELSE /\ oob' = TRUE
                    /\ evld' = <<>>
                    /\ under' = IF Len(evld) = 0 THEN under + 1 ELSE under
            /\ expr' = PopBack(expr)
            /\ it' = it + 1
            /\ UNCHANGED <<pc, fatal>>
    /\ UNCHANGED result
    /\ RpnUnchanged

\* The same access in a build that checks it (or on unmapped memory).
EvalOprTrap ==
    /\ InLoop
    /\ type(Token.symbol) = "opr"
    /\ Len(evld) < 2
    /\ Stop("value stack underflow")
    /\ UNCHANGED <<it, expr, evld, under, oob, result>>
    /\ RpnUnchanged

\* expr.pop_back() has invalidated the loop's end iterator and every
\* iterator at or past the new end: a build that checks iterators or
\* container bounds stops at the next comparison or dereference.
EvalIterTrap ==
    /\ pc = "eval"
    /\ Len(expr) < last
    /\ Stop("invalidated iterator")
    /\ UNCHANGED <<it, expr, evld, under, oob, result>>
    /\ RpnUnchanged

\* After the loop: assert(evld.size() == 1); return evld.back()
EvalReturn ==
    /\ pc = "eval"
    /\ it >= last
    /\ IF Len(evld) = 1 /\ under = 0
       THEN /\ pc' = "done"
            /\ result' = <<Back(evld)>>
            /\ UNCHANGED fatal
       ELSE /\ Stop("result count")
            /\ UNCHANGED result
    /\ UNCHANGED <<it, expr, evld, under, oob>>
    /\ RpnUnchanged

Next ==
    \/ RpnVal
    \/ RpnOpr
    \/ RpnOpen
    \/ RpnClose
    \/ RpnBlank
    \/ RpnAbort
    \/ RpnEnd
    \/ EvalVal
    \/ EvalOpr
    \/ EvalOprTrap
    \/ EvalIterTrap
    \/ EvalReturn

Spec == Init /\ [][Next]_vars

(***************************************************************************)
(* Vocabulary of the properties, defined on the input text alone.          *)
(***************************************************************************)
LiteralChars == Digits \cup {"."}

RECURSIVE RunEnd(_, _)
\* The end of the maximal run of digits and periods that starts at k.
RunEnd(str, k) ==
    IF k < Len(str) /\ At(str, k) \in LiteralChars THEN RunEnd(str, k + 1) ELSE k

RECURSIVE RunStart(_, _)
\* The start of the maximal run of digits and periods that ends before k.
RunStart(str, k) ==
    IF k > 0 /\ At(str, k - 1) \in LiteralChars THEN RunStart(str, k - 1) ELSE k

Periods(str, from, to) == Cardinality({k \in from .. (to - 1) : At(str, k) = "."})

\* [from, to) is a literal: not empty, a digit first, digits and at most
\* one period after it.
IsLiteral(str, from, to) ==
    /\ from < to
    /\ At(str, from) \in Digits
    /\ \A k \in from .. (to - 1) : At(str, k) \in LiteralChars
    /\ Periods(str, from, to) <= 1

RECURSIVE Depth(_, _)
\* Open parentheses minus close parentheses among the first k characters.
Depth(str, k) ==
    IF k = 0 THEN 0
    ELSE Depth(str, k - 1) + (IF At(str, k - 1) = "(" THEN 1
                              ELSE IF At(str, k - 1) = ")" THEN -1 ELSE 0)

\* The positions of a ")" that closes nothing.
UnmatchedClose(str) == {k \in 0 .. (Len(str) - 1) : Depth(str, k + 1) < 0}

Min(S) == CHOOSE x \in S : \A y \in S : x <= y

Max(S) == CHOOSE x \in S : \A y \in S : y <= x

Balanced(str) == UnmatchedClose(str) = {} /\ Depth(str, Len(str)) = 0

NoPeriod(str) == \A k \in DOMAIN str : str[k] # "."

RECURSIVE Infix(_, _, _, _)
\* str from k on continues a well-formed infix expression: operands
\* (literals, parenthesised expressions) separated by single operators.
Infix(str, k, wantOperand, depth) ==
    IF k >= Len(str) THEN ~wantOperand /\ depth = 0
    ELSE LET c == At(str, k) IN
         CASE c \in Blanks    -> Infix(str, k + 1, wantOperand, depth)
           [] c \in Digits    -> /\ wantOperand
                                 /\ IsLiteral(str, k, RunEnd(str, k))
                                 /\ Infix(str, RunEnd(str, k), FALSE, depth)
           [] c \in Operators -> ~wantOperand /\ Infix(str, k + 1, TRUE, depth)
           [] c = "("         -> wantOperand /\ Infix(str, k + 1, TRUE, depth + 1)
           [] c = ")"         -> /\ ~wantOperand
                                 /\ depth > 0
                                 /\ Infix(str, k + 1, FALSE, depth - 1)
           [] OTHER           -> FALSE

WellFormed(str) == Infix(str, 0, TRUE, 0)

RpnFatal ==
    /\ pc = "fatal"
    /\ fatal \in {"second period", "leading period", "unknown symbol",
                  "unbalanced close", "unbalanced open"}

Symbols(q) == [k \in DOMAIN q |-> q[k].symbol]

IntVal(k) == [n |-> k, d |-> 1]

(***************************************************************************)
(* C1.  Precedence and associativity decide the grouping of a op1 b op2 c. *)
(***************************************************************************)
OperatorPositions(str) == {k \in 0 .. (Len(str) - 1) : At(str, k) \in Operators}

\* str is  a op1 b op2 c  with literals a, b, c.
IsTriple(str) ==
    /\ \A k \in DOMAIN str : str[k] \in LiteralChars \cup Operators
    /\ Cardinality(OperatorPositions(str)) = 2
    /\ LET j == Min(OperatorPositions(str))
           k == Max(OperatorPositions(str))
       IN  /\ IsLiteral(str, 0, j)
           /\ IsLiteral(str, j + 1, k)
           /\ IsLiteral(str, k + 1, Len(str))

\* The precedence tiers as the specification's table gives them (a higher
\* tier binds tighter).
Tier(op) ==
    CASE op = "^" -> 3
      [] op \in {"*", "/", "%"} -> 2
      [] op \in {"+", "-"} -> 1

GroupsLeft(op1, op2) ==
    \/ Tier(op1) > Tier(op2)
    \/ Tier(op1) = Tier(op2) /\ op2 # "^"

\* The postfix sequence C1 describes for the triple str.
TriplePostfix(str) ==
    LET j  == Min(OperatorPositions(str))
        k  == Max(OperatorPositions(str))
        a  == [start |-> 0, end |-> j, symbol |-> At(str, 0)]
        b  == [start |-> j + 1, end |-> k, symbol |-> At(str, j + 1)]
        c  == [start |-> k + 1, end |-> Len(str), symbol |-> At(str, k + 1)]
        o1 == [start |-> j, end |-> j + 1, symbol |-> At(str, j)]
        o2 == [start |-> k, end |-> k + 1, symbol |-> At(str, k)]
    IN  IF GroupsLeft(o1.symbol, o2.symbol)
        THEN <<a, b, o1, c, o2>>
        ELSE <<a, b, c, o2, o1>>

\* C1: for every input a op1 b op2 c, rpn completes and its output is
\* a b op1 c op2 exactly when op1 binds tighter than op2, or as tight with
\* op2 left-associative, and a b c op2 op1 otherwise; so 8/4/2 evaluates to
\* (8/4)/2 = 1 and 2^3^2 to 2^(3^2) = 512.
C1_TripleGrouping ==
    /\ (IsTriple(s) /\ pc # "rpn") => buf = TriplePostfix(s)
    /\ (pc = "done" /\ s = <<"8", "/", "4", "/", "2">>) => result = <<IntVal(1)>>
    /\ (pc = "done" /\ s = <<"2", "^", "3", "^", "2">>) => result = <<IntVal(512)>>

C1_Witness ==
    /\ pc = "done"
    /\ s = <<"2", "^", "3", "^", "2">>
    /\ Symbols(buf) = <<"2", "3", "2", "^", "^">>
    /\ result = <<IntVal(512)>>

(***************************************************************************)
(* C2.  eval returns a number only for a well-formed infix expression.     *)
(***************************************************************************)
\* C2: if eval returns a value then its input is a well-formed infix
\* expression (every other input ends in a fatal stop).
C2_ReturnsOnlyWellFormed == pc = "done" => WellFormed(s)

(***************************************************************************)
(* C3.  Without periods, rpn is fatal exactly on unbalanced parentheses.   *)
(***************************************************************************)
\* C3: for an input without a period, rpn never scans past a ")" that
\* closes nothing but stops at the first one; it stops at the end of the
\* input when a "(" is still open; and once rpn is over, it has stopped
\* fatally if and only if the parentheses are unbalanced.
C3_FatalIffUnbalanced ==
    NoPeriod(s) =>
        /\ \A k \in UnmatchedClose(s) : i <= k
        /\ (pc = "fatal" /\ fatal = "unbalanced close") =>
               UnmatchedClose(s) # {} /\ i = Min(UnmatchedClose(s))
        /\ (pc = "fatal" /\ fatal = "unbalanced open") =>
               /\ UnmatchedClose(s) = {}
               /\ Depth(s, Len(s)) > 0
               /\ i = Len(s)
        /\ pc # "rpn" => (RpnFatal <=> ~Balanced(s))

C3_Witness ==
    /\ NoPeriod(s)
    /\ pc = "fatal"
    /\ fatal = "unbalanced close"
    /\ i = 3
    /\ Symbols(expr) = <<"1", "2", "-">>

(***************************************************************************)
(* C4.  An operator with fewer than two values is a fatal stop.            *)
(***************************************************************************)
\* C4: a step of eval at an Operator token with fewer than two values on
\* the value stack is a fatal stop at that token: the stack is left as it
\* is, no slot outside it is touched, and nothing is returned.
C4_UnderflowIsFatal ==
    [][(InLoop /\ type(Token.symbol) = "opr" /\ Len(evld) < 2) =>
           /\ pc' = "fatal"
           /\ it' = it
           /\ evld' = evld
           /\ under' = under
           /\ oob' = oob
           /\ result' = <<>>]_vars

(***************************************************************************)
(* C5.  An operator replaces the top two values a, b by a OPR b.           *)
(***************************************************************************)
Tracked(k) == IF -Cap <= k /\ k <= Cap THEN IntVal(k) ELSE NaR

\* a OPR b for integers a and b, by the arithmetic of Integers.
IntegerResult(a, b, opr, r) ==
    /\ opr = "+" => r = Tracked(a + b)
    /\ opr = "-" => r = Tracked(a - b)
    /\ opr = "*" => r = Tracked(a * b)
    /\ (opr = "/" /\ b > 0 /\ a >= 0 /\ a % b = 0) => r = Tracked(a \div b)
    /\ (opr = "%" /\ b > 0 /\ a >= 0) => r = Tracked(a % b)
    /\ (opr = "^" /\ a \in 1 .. 9 /\ b \in 0 .. 9) => r = Tracked(a ^ b)

\* C5: a step of eval at an Operator token with at least two values on the
\* stack replaces the top two, b on top of a, by a OPR b (a the left
\* operand): the stack is one shorter, the values below a are unchanged;
\* and 8-3 returns 5, 7%4 returns 3, 2^3 returns 8.
C5_OperatorFoldsTopTwo ==
    [][(InLoop /\ type(Token.symbol) = "opr" /\ Len(evld) >= 2 /\ pc' = "eval") =>
           LET n == Len(evld)
               a == evld[n - 1]
               b == evld[n]
           IN  /\ it' = it + 1
               /\ Len(evld') = n - 1
               /\ \A k \in 1 .. (n - 2) : evld'[k] = evld[k]
               /\ evld'[n - 1] = applyOperator(a, b, Token.symbol)
               /\ (a # NaR /\ b # NaR /\ a.d = 1 /\ b.d = 1) =>
                      IntegerResult(a.n, b.n, Token.symbol, evld'[n - 1])
               /\ (s' = <<"8", "-", "3">>) => evld' = <<IntVal(5)>>
               /\ (s' = <<"7", "%", "4">>) => evld' = <<IntVal(3)>>
               /\ (s' = <<"2", "^", "3">>) => evld' = <<IntVal(8)>>]_vars

C5_Witness ==
    /\ s = <<"8", "-", "3">>
    /\ pc = "done"
    /\ it = 3
    /\ result = <<IntVal(5)>>

(***************************************************************************)
(* C6.  Where a token starts, a digit begins a Number token.               *)
(***************************************************************************)
\* C6, as stated: a period where a token starts begins a Number token and
\* is no fatal error (so .5 and 1+.5 are accepted).
C6_LeadingPeriodStartsNumber ==
    [][(Scanning /\ At(s, i) = ".") =>
           /\ pc' # "fatal"
           /\ Len(expr') = Len(expr) + 1
           /\ expr'[Len(expr')].start = i]_vars

\* C6, amended: where a token starts, a digit begins a Number token that
\* takes the maximal run of digits and periods that follows (unless the
\* run holds a second period, which is fatal), and a period is a fatal
\* error that yields no token.
C6_DigitStartsNumber ==
    [][Scanning =>
           /\ (At(s, i) \in Digits /\ pc' # "fatal") =>
                  /\ expr' = Append(expr, [start |-> i, end |-> RunEnd(s, i),
                                           symbol |-> At(s, i)])
                  /\ i' = RunEnd(s, i)
           /\ (At(s, i) \in Digits /\ pc' = "fatal") =>
                  Periods(s, i, RunEnd(s, i)) >= 2 /\ expr' = expr
           /\ (At(s, i) = ".") => (pc' = "fatal" /\ i' = i /\ expr' = expr)]_vars

C6_Witness ==
    /\ s = <<"1", "+", ".", "5">>
    /\ pc = "fatal"
    /\ fatal = "leading period"
    /\ i = 2
    /\ Symbols(expr) = <<"1">>

(***************************************************************************)
(* C7.  Number tokens are literals; a second period is fatal.              *)
(***************************************************************************)
\* Position k holds a period that follows another period of its run.
SecondPeriod(str, k) ==
    /\ k < Len(str)
    /\ At(str, k) = "."
    /\ Periods(str, RunStart(str, k), k) >= 1

Numbers(q) == {q[k] : k \in {j \in DOMAIN q : type(q[j].symbol) = "val"}}

\* C7: every Number token rpn has emitted spans a non-empty run of digits
\* with at most one period; rpn never scans past a second period of a
\* run: it stops fatally at that character, having emitted no token for
\* the run.
C7_NumberTokens ==
    /\ \A p \in Numbers(expr) \cup Numbers(buf) :
           /\ 0 <= p.start /\ p.end <= Len(s)
           /\ IsLiteral(s, p.start, p.end)
    /\ \A k \in 0 .. (i - 1) : ~SecondPeriod(s, k)
    /\ SecondPeriod(s, i) =>
           /\ pc = "fatal"
           /\ fatal = "second period"
           /\ \A p \in Numbers(expr) : p.end <= RunStart(s, i)
    /\ (pc = "fatal" /\ fatal = "second period") => SecondPeriod(s, i)

C7_Witness ==
    /\ s = <<"1", "-", "1", ".", ".">>
    /\ pc = "fatal"
    /\ fatal = "second period"
    /\ i = 4
    /\ Len(expr) = 1

(***************************************************************************)
(* C8.  Parentheses never reach the output.                                *)
(***************************************************************************)
Opens(q) == Cardinality({k \in DOMAIN q : q[k].symbol = "("})

\* C8: in every state the output holds only Number tokens and the six
\* operators, the stack only operators and "(" markers (never a ")"),
\* and the stack holds one "(" marker for each "(" scanned and not yet
\* closed by a ")".
C8_NoParenthesisInOutput ==
    /\ \A k \in DOMAIN expr : type(expr[k].symbol) \in {"val", "opr"}
    /\ \A k \in DOMAIN buf : type(buf[k].symbol) \in {"val", "opr"}
    /\ \A k \in DOMAIN oprs : type(oprs[k].symbol) \in {"opr", "open"}
    /\ pc = "rpn" => Opens(oprs) = Depth(s, i)

C8_Witness ==
    /\ s = <<"(", "1", "-", "2", ")">>
    /\ pc = "rpn"
    /\ i = 5
    /\ oprs = <<>>
    /\ Symbols(expr) = <<"1", "2", "-">>

(***************************************************************************)
(* C9.  What rpn accepts, eval evaluates.                                  *)
(***************************************************************************)
\* C9: once rpn has completed, eval never reaches an Operator token with
\* fewer than two values on the value stack, and it leaves its loop with
\* exactly one value.
C9_RpnOutputEvaluates ==
    pc = "eval" =>
        /\ (it < last /\ type(Token.symbol) = "opr") => Len(evld) >= 2
        /\ it >= last => (Len(evld) = 1 /\ under = 0)

(***************************************************************************)
(* C10.  The loop of eval reads every token rpn produced, in order.        *)
(***************************************************************************)
\* C10: already for a well-formed expression: every token the loop is
\* about to read is still an element of expr, the one rpn placed there,
\* and the pop_back of an earlier step never stops the loop before the
\* last token.
C10_EveryTokenRead ==
    WellFormed(s) =>
        /\ InLoop => (it < Len(expr) /\ expr[it + 1] = buf[it + 1])
        /\ (pc = "fatal" /\ fatal = "invalidated iterator") => it >= last

====
